---- MODULE Spec2Model ----
(***************************************************************************)
(* Saga Archive Search API: the request pipeline of src/main.py over the   *)
(* embedding service and the Supabase search service                       *)
(* (src/services/supabase_service.py).                                      *)
(*                                                                         *)
(* One request is handled at a time: a handler action takes the service    *)
(* from "idle" to "responded", leaving the request as the handler saw it   *)
(* (req), the response (resp) and the external calls it made (ext);        *)
(* Deliver hands the response back and discards the per-request values.    *)
(* Floating-point values (threshold, similarity, relevance) are counted in *)
(* hundredths: 100 stands for 1.0.                                         *)
(*                                                                         *)
(* Spec            the request pipeline, one request at a time             *)
(* SpecConc        get_supabase_service under concurrent requests          *)
(* SpecEnv         _get_supabase_env over every environment                *)
(* SpecRelevance   SupabaseSearchService._calculate_text_relevance         *)
(* SpecTranslation TranslationService.translate                            *)
(***************************************************************************)
EXTENDS Integers, Sequences, FiniteSets, TLC

VARIABLES
    embedding_service,        \* main.py:31  TRUE when the CLIP model is loaded, FALSE for None
    supabase_service,         \* main.py:32  NONE or the constructed client
    _supabase_init_attempted, \* main.py:33
    environ,                  \* os.environ, the variables _get_supabase_env reads
    lifespan_state,           \* "pending", "started", or "skipped" (app driven without lifespan)
    pc,                       \* "idle" or "responded"
    req,                      \* the request being answered (defaults applied)
    resp,                     \* its response
    ext,                      \* the external calls made for it
    lazy_init_errors,         \* main.py:103 lines logged under this environment, handle still None
    unit,                     \* a service function applied on its own: arguments and result
    tasks                     \* requests in flight, one step of get_supabase_service at a time

vars == <<embedding_service, supabase_service, _supabase_init_attempted,
          environ, lifespan_state, pc, req, resp, ext, lazy_init_errors, unit, tasks>>

----------------------------------------------------------------------------
\* Bounds of the model

MaxRows == 2
\* Lazy-initialisation error lines counted under one environment.
MaxLogged == 2
\* Requests in flight at once.
MaxTasks == 2

----------------------------------------------------------------------------
\* Program constants

LIMIT_DEFAULT == 20
LIMIT_GE == 1
LIMIT_LE == 100
THRESHOLD_DEFAULT == 0
THRESHOLD_GE == 0
THRESHOLD_LE == 100
QUERY_MIN_LENGTH == 1
SIMILARITY_DEFAULT == 0

HTTP_200 == 200
HTTP_400 == 400
HTTP_422 == 422
HTTP_500 == 500
HTTP_503 == 503

NONE == "None"

GET_LIMIT_DEFAULT == 20
GET_THRESHOLD_DEFAULT == 0
GET_SEARCH_TYPE_DEFAULT == "combined"
SEARCH_TYPE_DEFAULT == "combined"

SEARCH_TYPES == {"visual", "text", "combined"}

DEFAULT_SUPABASE_URL == "default-url"
DEFAULT_SUPABASE_ANON_KEY == "default-anon-key"

SUPABASE_KEY_ENV_VARS ==
    <<"SUPABASE_KEY", "SUPABASE_SERVICE_ROLE_KEY", "SUPABASE_API_KEY", "SUPABASE_ANON_KEY">>

EnvVars == {"SUPABASE_URL"} \cup {SUPABASE_KEY_ENV_VARS[i] : i \in 1..Len(SUPABASE_KEY_ENV_VARS)}

BUCKET_DEFAULT == "media-files"

DETAIL_EMBEDDING == "Embedding service not initialized"
DETAIL_DATABASE == "Database service not initialized"
DETAIL_SEARCH_TYPE == "search_type must be 'visual', 'text', or 'combined'"
DETAIL_NOT_IMAGE == "Uploaded file must be an image"
DETAIL_ENCODE_TEXT == "Failed to encode query text"
DETAIL_ENCODE_IMAGE == "Failed to encode image"
DETAIL_SEARCH_FAILED == "Database search failed"
DETAIL_VALIDATION == "Unprocessable Entity"
DETAIL_UNHANDLED == "Internal Server Error"

----------------------------------------------------------------------------
\* Inputs.  An optional parameter is <<>> when the caller omits it and <<v>>
\* when the caller gives v.

Opt(S) == {<<>>} \cup {<<v>> : v \in S}

QueryTexts == {<<>>, <<" ">>, <<"a">>}
SearchTypeInputs == Opt({"visual", "text", "combined", "bogus"})
LimitInputs == Opt({0, 1, 100, 101})
ThresholdInputs == Opt({-1, 0, 100, 101})
FileTypeInputs == Opt({"image"})
DecadeInputs == Opt({"1950s"})
\* A content type is <<type, subtype>>; <<>> is a missing (None or empty) one.
ContentTypes == {<<>>, <<"text", "plain">>, <<"image", "png">>}

\* os.getenv(name) of a variable that is not set (None).
UNSET == "<unset>"

\* if value: for what os.getenv returned; None and "" are falsy.
Truthy(value) == value # UNSET /\ value # ""

\* Values of SUPABASE_KEY in the running service.
EnvKeyValues == {UNSET, "invalid-key"}

\* How many times op occurs in a sequence of calls or log lines.
Count(calls, op) == Cardinality({i \in DOMAIN calls : calls[i] = op})

\* The value of an optional parameter, d when omitted (Field/Query default=).
Default(p, d) == IF p = <<>> THEN d ELSE p[1]

\* The environments considered: SUPABASE_KEY takes any of EnvKeyValues, the
\* other variables are unset.
EnvStates ==
    {[v \in EnvVars |-> IF v = "SUPABASE_KEY" THEN k ELSE UNSET] : k \in EnvKeyValues}

----------------------------------------------------------------------------
\* Backend rows (response.data of the RPC) and the outcomes of the external calls

\* A row's "similarity": the key absent, present with null, or a number.
SimilarityValues ==
    { [kind |-> "absent", val |-> 0],
      [kind |-> "null", val |-> 0],
      [kind |-> "num", val |-> 90] }

\* fault names the path of this row whose public-URL resolution raises.
Rows ==
    [similarity : SimilarityValues,
     storage_path : {"s.jpg"},
     thumbnail_path : {"t.jpg"},
     fault : {"none", "storage", "thumbnail"}]

RECURSIVE SeqsUpTo(_, _)
SeqsUpTo(S, n) ==
    IF n = 0 THEN {<<>>}
    ELSE LET shorter == SeqsUpTo(S, n - 1)
         IN  shorter \cup {Append(q, x) : q \in {t \in shorter : Len(t) = n - 1}, x \in S}

\* What client.rpc(...).execute() does: raises (RPC or transport error), answers
\* with data that is no list of rows, with data None, or with a list of rows.
RpcOutcomes ==
    { [kind |-> "raise", data |-> <<>>],
      [kind |-> "malformed", data |-> <<>>],
      [kind |-> "none", data |-> <<>>] }
    \cup {[kind |-> "rows", data |-> d] : d \in SeqsUpTo(Rows, MaxRows)}

EncodeOutcomes == {"ok", "raise"}

----------------------------------------------------------------------------
\* Per-request values

NoService == <<>>
NoUrl == <<>>

NoReq ==
    [endpoint |-> "none", query |-> <<>>, search_type |-> "", limit |-> 0,
     threshold |-> 0, file_type |-> NONE, decade |-> NONE, content_type |-> <<>>,
     given_limit |-> <<>>, given_threshold |-> <<>>]

NoResp ==
    [status |-> 0, detail |-> "", query |-> <<>>, search_type |-> "",
     results |-> <<>>, count |-> 0, supabase_connected |-> FALSE]

\* calls: the external steps in order; encoded: the texts given to encode_text;
\* enc_kind: how the encode call ended ("" when it was not made); rpc_args: the
\* arguments of each RPC; rpc_kind, data: what the RPC answered.
NoExt ==
    [calls |-> <<>>, encoded |-> <<>>, enc_kind |-> "", rpc_args |-> <<>>,
     rpc_kind |-> "", data |-> <<>>]

\* No function is being applied on its own; no request is in flight.
NoUnit == [fn |-> "none"]
NoTasks == <<>>

\* raise HTTPException(status_code=..., detail=...)
HTTPException(status_code, detail) ==
    [status |-> status_code, detail |-> detail, query |-> <<>>, search_type |-> "",
     results |-> <<>>, count |-> 0, supabase_connected |-> FALSE]

\* TextSearchResponse(query, search_type, results, count=len(results))
TextSearchResponse(query, search_type, results) ==
    [status |-> HTTP_200, detail |-> "", query |-> query, search_type |-> search_type,
     results |-> results, count |-> Len(results), supabase_connected |-> FALSE]

\* ImageSearchResponse(search_type, results, count=len(results))
ImageSearchResponse(search_type, results) ==
    [status |-> HTTP_200, detail |-> "", query |-> <<>>, search_type |-> search_type,
     results |-> results, count |-> Len(results), supabase_connected |-> FALSE]

----------------------------------------------------------------------------
\* Environment and lazy initialisation (main.py:44-122)

FirstKey_LastWins(env, i) ==
    LET found == {j \in i..Len(SUPABASE_KEY_ENV_VARS) : Truthy(env[SUPABASE_KEY_ENV_VARS[j]])}
    IN  IF found = {} THEN [key |-> UNSET, source |-> NONE]
        ELSE LET last == CHOOSE j \in found : \A k \in found : k <= j
             IN  [key |-> env[SUPABASE_KEY_ENV_VARS[last]],
                  source |-> SUPABASE_KEY_ENV_VARS[last]]

RECURSIVE FirstKey(_, _)
\* for env_var in SUPABASE_KEY_ENV_VARS: value = os.getenv(env_var); if value: ... break
FirstKey(env, i) ==
    IF i > Len(SUPABASE_KEY_ENV_VARS) THEN [key |-> UNSET, source |-> NONE]
    ELSE IF Truthy(env[SUPABASE_KEY_ENV_VARS[i]])
         THEN [key |-> env[SUPABASE_KEY_ENV_VARS[i]], source |-> SUPABASE_KEY_ENV_VARS[i]]
         ELSE FirstKey(env, i + 1)

_get_supabase_env(env) ==
    LET supabase_url_env == env["SUPABASE_URL"]
        found == FirstKey(env, 1)
    IN  [supabase_url |-> IF Truthy(supabase_url_env) THEN supabase_url_env
                          ELSE DEFAULT_SUPABASE_URL,
         url_source |-> IF Truthy(supabase_url_env) THEN "SUPABASE_URL"
                        ELSE "DEFAULT_SUPABASE_URL",
         supabase_key |-> IF Truthy(found.key) THEN found.key
                          ELSE DEFAULT_SUPABASE_ANON_KEY,
         key_source |-> IF Truthy(found.key) THEN found.source
                        ELSE "DEFAULT_SUPABASE_ANON_KEY",
         key_is_default |-> ~Truthy(found.key)]

\* create_client(url, key) raises on a key (or URL) it does not accept.
CreateClientOk(url, key) == url # "invalid-url" /\ key # "invalid-key"

\* SupabaseSearchService(url, key): the constructed service, or NoService when
\* __init__ raises.
SupabaseSearchService(url, key) ==
    IF CreateClientOk(url, key)
    THEN <<[url |-> url, key |-> key, bucket_name |-> BUCKET_DEFAULT]>>
    ELSE NoService

\* get_supabase_service(): the handle it returns (and stores), whether it set
\* the attempted flag, and the external steps and log lines it made.
get_supabase_service ==
    IF supabase_service # NoService
    THEN [service |-> supabase_service, attempted |-> _supabase_init_attempted,
          calls |-> <<>>, logs |-> <<>>]
    ELSE LET e == _get_supabase_env(environ)
         IN  IF e.supabase_url # "" /\ e.supabase_key # ""
             THEN LET made == SupabaseSearchService(e.supabase_url, e.supabase_key)
                  IN  [service |-> made, attempted |-> _supabase_init_attempted,
                       calls |-> <<"create_client">>,
                       logs |-> IF made = NoService THEN <<"error">> ELSE <<>>]
             ELSE [service |-> NoService, attempted |-> TRUE, calls |-> <<>>,
                   logs |-> IF _supabase_init_attempted THEN <<>> ELSE <<"warning">>]

\* get_supabase_service() was not called: the globals stay as they are.
NotCalled ==
    [service |-> supabase_service, attempted |-> _supabase_init_attempted,
     calls |-> <<>>, logs |-> <<>>]

----------------------------------------------------------------------------
\* SupabaseSearchService (supabase_service.py)

\* if not storage_path: return None; a resolution that raises is logged and
\* answered with None.
_get_public_url(storage_path, raises) ==
    IF storage_path \in {"", NONE} THEN NoUrl
    ELSE IF raises THEN NoUrl
    ELSE <<BUCKET_DEFAULT, storage_path>>

\* Whether _get_public_url reaches the storage client for this path.
ResolvesUrl(storage_path) == storage_path \notin {"", NONE}

\* The score read under a key the rows do not carry: always the default.
FloatSimilarity_WrongKey(similarity) == [raised |-> FALSE, val |-> SIMILARITY_DEFAULT]

\* float(item.get("similarity", 0)): the default for a missing key, TypeError
\* for None.
FloatSimilarity(similarity) ==
    IF similarity.kind = "absent" THEN [raised |-> FALSE, val |-> SIMILARITY_DEFAULT]
    ELSE IF similarity.kind = "null" THEN [raised |-> TRUE, val |-> 0]
    ELSE [raised |-> FALSE, val |-> similarity.val]

\* Both look-ups under one handler: a failure of either loses both URLs.
ResultItem_SharedFailure(item) ==
    [storage_path |-> item.storage_path,
     thumbnail_path |-> item.thumbnail_path,
     similarity_score |-> FloatSimilarity(item.similarity).val,
     storage_url |-> _get_public_url(item.storage_path, item.fault # "none"),
     thumbnail_url |-> _get_public_url(item.thumbnail_path, item.fault # "none")]

\* The result dict built from one row (lines 85-106).
ResultItem(item) ==
    [storage_path |-> item.storage_path,
     thumbnail_path |-> item.thumbnail_path,
     similarity_score |-> FloatSimilarity(item.similarity).val,
     storage_url |-> _get_public_url(item.storage_path, item.fault = "storage"),
     thumbnail_url |-> _get_public_url(item.thumbnail_path, item.fault = "thumbnail")]

UrlCalls(item) ==
    (IF ResolvesUrl(item.storage_path) THEN <<"get_public_url">> ELSE <<>>)
    \o (IF ResolvesUrl(item.thumbnail_path) THEN <<"get_public_url">> ELSE <<>>)

RECURSIVE ProcessRows(_, _, _, _)
\* for item in response.data: ... results.append(result)
ProcessRows(data, i, results, calls) ==
    IF i > Len(data) THEN [raised |-> FALSE, results |-> results, calls |-> calls]
    ELSE IF FloatSimilarity(data[i].similarity).raised
         THEN [raised |-> TRUE, results |-> <<>>, calls |-> calls]
         ELSE ProcessRows(data, i + 1, Append(results, ResultItem(data[i])),
                          calls \o UrlCalls(data[i]))

\* The except clause returning [] instead of re-raising.
search_by_embedding_Swallow(rpc) ==
    IF rpc.kind \in {"raise", "malformed"}
    THEN [raised |-> FALSE, results |-> <<>>, calls |-> <<"rpc">>]
    ELSE IF rpc.kind = "none" \/ rpc.data = <<>>
    THEN [raised |-> FALSE, results |-> <<>>, calls |-> <<"rpc">>]
    ELSE LET done == ProcessRows(rpc.data, 1, <<>>, <<"rpc">>)
         IN  [done EXCEPT !.raised = FALSE]

\* An empty answer treated as an error.
search_by_embedding_EmptyRaises(rpc) ==
    IF rpc.kind \in {"raise", "malformed"}
    THEN [raised |-> TRUE, results |-> <<>>, calls |-> <<"rpc">>]
    ELSE IF rpc.kind = "none" \/ rpc.data = <<>>
    THEN [raised |-> TRUE, results |-> <<>>, calls |-> <<"rpc">>]
    ELSE ProcessRows(rpc.data, 1, <<>>, <<"rpc">>)

\* search_by_embedding with the RPC answering rpc: whether it raises, the
\* results it returns and the external calls it makes.
search_by_embedding(rpc) ==
    IF rpc.kind = "raise"
    THEN [raised |-> TRUE, results |-> <<>>, calls |-> <<"rpc">>]
    ELSE IF rpc.kind = "malformed"
    THEN [raised |-> TRUE, results |-> <<>>, calls |-> <<"rpc">>]
    ELSE IF rpc.kind = "none" \/ rpc.data = <<>>
    THEN [raised |-> FALSE, results |-> <<>>, calls |-> <<"rpc">>]
    ELSE ProcessRows(rpc.data, 1, <<>>, <<"rpc">>)

\* The arguments of the RPC (lines 67-77).
RpcArgs(embedding, search_type, limit, threshold, file_type, decade) ==
    [query_embedding |-> embedding, search_type |-> search_type,
     match_threshold |-> threshold, match_count |-> limit,
     file_type_filter |-> file_type, decade_filter |-> decade]

----------------------------------------------------------------------------
\* Embedding service (embedding_service.py), as the pipeline consumes it

\* encode_text(text): the embedding stands for the text it was computed from.
encode_text(text) == <<"text-embedding">> \o text

\* encode_image(BytesIO(image_bytes))
encode_image == <<"image-embedding">>

----------------------------------------------------------------------------
\* Request validation done by the framework from the declared constraints

ValidQuery(query) == Len(query) >= QUERY_MIN_LENGTH
\* le=100 left out of the constraint.
ValidLimit_NoUpperBound(limit) == limit >= LIMIT_GE

ValidLimit(limit) == limit >= LIMIT_GE /\ limit <= LIMIT_LE
ValidThreshold(threshold) == threshold >= THRESHOLD_GE /\ threshold <= THRESHOLD_LE

\* A handler without the search-type check.
ValidSearchType_Unchecked(search_type) == TRUE

\* request.search_type in ["visual", "text", "combined"] (main.py:313, 413)
ValidSearchType(search_type) == search_type \in SEARCH_TYPES

\* TextSearchRequest(...): the model's fields, with its defaults.  given_limit
\* and given_threshold keep what the caller sent.
TextSearchRequest(endpoint, query, search_type, limit, threshold, file_type, decade) ==
    [endpoint |-> endpoint, query |-> query,
     search_type |-> Default(search_type, SEARCH_TYPE_DEFAULT),
     limit |-> Default(limit, LIMIT_DEFAULT),
     threshold |-> Default(threshold, THRESHOLD_DEFAULT),
     file_type |-> Default(file_type, NONE),
     decade |-> Default(decade, NONE),
     content_type |-> <<>>,
     given_limit |-> limit, given_threshold |-> threshold]

\* Whether TextSearchRequest's field constraints accept the values.
ValidTextSearchRequest(request) ==
    ValidQuery(request.query) /\ ValidLimit(request.limit)
        /\ ValidThreshold(request.threshold)

\* The Query(...) parameters of GET /search with their defaults,
\* main.py:358-363.
GetQueryParams_OtherLimit(query, search_type, limit, threshold, file_type, decade) ==
    [query |-> query,
     search_type |-> Default(search_type, GET_SEARCH_TYPE_DEFAULT),
     limit |-> Default(limit, GET_LIMIT_DEFAULT + 1),
     threshold |-> Default(threshold, GET_THRESHOLD_DEFAULT),
     file_type |-> file_type, decade |-> decade]
GetQueryParams(query, search_type, limit, threshold, file_type, decade) ==
    [query |-> query,
     search_type |-> Default(search_type, GET_SEARCH_TYPE_DEFAULT),
     limit |-> Default(limit, GET_LIMIT_DEFAULT),
     threshold |-> Default(threshold, GET_THRESHOLD_DEFAULT),
     file_type |-> file_type, decade |-> decade]

\* The Query(...) constraints of GET /search.
ValidGetParams(request) ==
    ValidQuery(request.query) /\ ValidLimit(request.limit)
        /\ ValidThreshold(request.threshold)

\* The parameters of POST /search/image, with their defaults.
ImageSearchParams(content_type, search_type, limit, threshold, file_type, decade) ==
    [endpoint |-> "POST /search/image", query |-> <<>>,
     search_type |-> Default(search_type, SEARCH_TYPE_DEFAULT),
     limit |-> Default(limit, LIMIT_DEFAULT),
     threshold |-> Default(threshold, THRESHOLD_DEFAULT),
     file_type |-> Default(file_type, NONE),
     decade |-> Default(decade, NONE),
     content_type |-> content_type,
     given_limit |-> limit, given_threshold |-> threshold]

\* The Query(...) constraints of POST /search/image.
ValidImageParams(request) ==
    ValidLimit(request.limit) /\ ValidThreshold(request.threshold)

\* image.content_type and image.content_type.startswith("image/")
IsImageContentType(content_type) ==
    content_type # <<>> /\ content_type[1] = "image"

----------------------------------------------------------------------------
\* Handlers

\* One way a handler can end: the request as the handler saw it, the response,
\* what get_supabase_service returned and did, and the external calls made.
Outcome(request, response, init, calls) ==
    [request |-> request, response |-> response, init |-> init, ext |-> calls]

\* if not db_service: raise HTTPException(503), main.py:306, 406
Ready_Unchecked(db_service) == TRUE
Ready(db_service) == db_service # NoService

\* except Exception as e: raise HTTPException(500, "Failed to encode ...: {e}"),
\* main.py:324-329, 433-438.  The encode call was made once and raised.
EncodeFailure_Retried(request, init, call, encoded, detail) ==
    Outcome(request, HTTPException(HTTP_500, detail), init,
            [NoExt EXCEPT !.calls = init.calls \o <<call, call>>,
                          !.encoded = encoded \o encoded, !.enc_kind = "raise"])
EncodeFailure(request, init, call, encoded, detail) ==
    Outcome(request, HTTPException(HTTP_500, detail), init,
            [NoExt EXCEPT !.calls = init.calls \o <<call>>,
                          !.encoded = encoded, !.enc_kind = "raise"])

\* search_by_text(request), main.py:284-353: how the handler ends when the
\* embedding provider answers enc and the backend answers rpc (each consulted
\* only if the handler gets that far).
search_by_text(request, enc, rpc) ==
    IF ~embedding_service
    THEN Outcome(request, HTTPException(HTTP_503, DETAIL_EMBEDDING), NotCalled, NoExt)
    ELSE LET init == get_supabase_service
             db_service == init.service
         IN
         IF ~Ready(db_service)
         THEN Outcome(request, HTTPException(HTTP_503, DETAIL_DATABASE), init,
                      [NoExt EXCEPT !.calls = init.calls])
         ELSE IF ~ValidSearchType(request.search_type)
         THEN Outcome(request, HTTPException(HTTP_400, DETAIL_SEARCH_TYPE), init,
                      [NoExt EXCEPT !.calls = init.calls])
         ELSE IF enc = "raise"
         THEN EncodeFailure(request, init, "encode_text", <<request.query>>,
                            DETAIL_ENCODE_TEXT)
         ELSE LET query_embedding == encode_text(request.query)
                  found == search_by_embedding(rpc)
                  made == [calls |-> init.calls \o <<"encode_text">> \o found.calls,
                           encoded |-> <<request.query>>,
                           enc_kind |-> enc,
                           rpc_args |-> <<RpcArgs(query_embedding, request.search_type,
                                                 request.limit, request.threshold,
                                                 request.file_type, request.decade)>>,
                           rpc_kind |-> rpc.kind,
                           data |-> rpc.data]
              IN  IF found.raised
                  THEN Outcome(request, HTTPException(HTTP_500, DETAIL_SEARCH_FAILED),
                               init, made)
                  ELSE Outcome(request,
                               TextSearchResponse(request.query, request.search_type,
                                                  found.results),
                               init, made)

\* search_by_image(image, search_type, limit, threshold, file_type, decade),
\* main.py:382-462
search_by_image(request, enc, rpc) ==
    IF ~embedding_service
    THEN Outcome(request, HTTPException(HTTP_503, DETAIL_EMBEDDING), NotCalled, NoExt)
    ELSE LET init == get_supabase_service
             db_service == init.service
         IN
         IF ~Ready(db_service)
         THEN Outcome(request, HTTPException(HTTP_503, DETAIL_DATABASE), init,
                      [NoExt EXCEPT !.calls = init.calls])
         ELSE IF ~ValidSearchType(request.search_type)
         THEN Outcome(request, HTTPException(HTTP_400, DETAIL_SEARCH_TYPE), init,
                      [NoExt EXCEPT !.calls = init.calls])
         ELSE IF ~IsImageContentType(request.content_type)
         THEN Outcome(request, HTTPException(HTTP_400, DETAIL_NOT_IMAGE), init,
                      [NoExt EXCEPT !.calls = init.calls])
         ELSE IF enc = "raise"
         THEN EncodeFailure(request, init, "encode_image", <<>>, DETAIL_ENCODE_IMAGE)
         ELSE LET query_embedding == encode_image
                  found == search_by_embedding(rpc)
                  made == [calls |-> init.calls \o <<"encode_image">> \o found.calls,
                           encoded |-> <<>>,
                           enc_kind |-> enc,
                           rpc_args |-> <<RpcArgs(query_embedding, request.search_type,
                                                 request.limit, request.threshold,
                                                 request.file_type, request.decade)>>,
                           rpc_kind |-> rpc.kind,
                           data |-> rpc.data]
              IN  IF found.raised
                  THEN Outcome(request, HTTPException(HTTP_500, DETAIL_SEARCH_FAILED),
                               init, made)
                  ELSE Outcome(request,
                               ImageSearchResponse(request.search_type, found.results),
                               init, made)

\* _get_supabase_env returns five values (main.py:70); health_check unpacks
\* them into three names (main.py:266).
ENV_TUPLE_LEN == 5
HEALTH_UNPACK_TARGETS == 3

HealthRequest == [NoReq EXCEPT !.endpoint = "GET /health"]

\* HealthResponse(status="healthy", ..., supabase_connected=db_service is not None)
HealthResponse(supabase_connected) ==
    [status |-> HTTP_200, detail |-> "healthy", query |-> <<>>, search_type |-> "",
     results |-> <<>>, count |-> 0, supabase_connected |-> supabase_connected]

\* health_check(), main.py:263-280.  Unpacking a tuple of another length
\* raises ValueError before anything else runs; the server answers 500.
health_check ==
    IF ENV_TUPLE_LEN # HEALTH_UNPACK_TARGETS
    THEN Outcome(HealthRequest, HTTPException(HTTP_500, DETAIL_UNHANDLED), NotCalled, NoExt)
    ELSE LET init == get_supabase_service
         IN  Outcome(HealthRequest, HealthResponse(init.service # NoService), init,
                     [NoExt EXCEPT !.calls = init.calls])

\* The handler ends: the response goes out, the globals are as
\* get_supabase_service left them, and the lines it logged with logger.error
\* (main.py:103) are counted for as long as the handle stays None under the
\* same environment.
Respond(o) ==
    LET errors == Count(o.init.logs, "error")
    IN  /\ lazy_init_errors + errors <= MaxLogged
        /\ pc' = "responded"
        /\ req' = o.request
        /\ resp' = o.response
        /\ ext' = o.ext
        /\ supabase_service' = o.init.service
        /\ _supabase_init_attempted' = o.init.attempted
        /\ lazy_init_errors' = IF o.init.service # NoService THEN 0
                               ELSE lazy_init_errors + errors
        /\ lifespan_state' = IF lifespan_state = "pending" THEN "skipped"
                              ELSE lifespan_state
        /\ UNCHANGED <<embedding_service, environ, unit, tasks>>

\* A handler runs against the outside: the embedding provider's answer is
\* drawn when the handler reaches the encode call (started: how it ends when
\* the provider answers), the backend's when it reaches the RPC (encoded: how
\* it ends when the backend answers None).
NoRpc == [kind |-> "none", data |-> <<>>]
EncodeAnswers(started) == IF started.ext.enc_kind = "" THEN {"ok"} ELSE EncodeOutcomes
RpcAnswers(encoded) == IF encoded.ext.rpc_kind = "" THEN {NoRpc} ELSE RpcOutcomes

----------------------------------------------------------------------------
\* The state machine

\* The process before its startup: the module-level globals of main.py:31-33.
NotStarted ==
    /\ embedding_service = FALSE
    /\ supabase_service = NoService
    /\ _supabase_init_attempted = FALSE
    /\ environ \in EnvStates
    /\ lifespan_state = "pending"
    /\ pc = "idle"
    /\ req = NoReq
    /\ resp = NoResp
    /\ ext = NoExt
    /\ lazy_init_errors = 0

Init ==
    /\ NotStarted
    /\ unit = NoUnit
    /\ tasks = NoTasks

\* lifespan(app) up to its yield, main.py:125-163.  It runs before the first
\* request or not at all; a model that fails to load aborts the startup.
Lifespan ==
    /\ pc = "idle"
    /\ lifespan_state = "pending"
    /\ lifespan_state' = "started"
    /\ embedding_service' = TRUE
    /\ LET e == _get_supabase_env(environ)
       IN  supabase_service' = SupabaseSearchService(e.supabase_url, e.supabase_key)
    /\ UNCHANGED <<_supabase_init_attempted, environ, pc, req, resp, ext,
                   lazy_init_errors, unit, tasks>>

\* The operator changes the service's variables.  The environment is read
\* only while the handle is None (main.py:82-86), so later changes are left out.
SetEnv ==
    /\ pc = "idle"
    /\ supabase_service = NoService
    /\ environ' \in EnvStates \ {environ}
    /\ lazy_init_errors' = 0
    /\ UNCHANGED <<embedding_service, supabase_service, _supabase_init_attempted,
                   lifespan_state, pc, req, resp, ext, unit, tasks>>

\* POST /search: the body is validated as a TextSearchRequest (422 when it
\* does not validate), then search_by_text answers.
PostSearch(query, search_type, limit, threshold, file_type, decade, enc, rpc) ==
    LET request == TextSearchRequest("POST /search", query, search_type, limit,
                                     threshold, file_type, decade)
    IN  IF ~ValidTextSearchRequest(request)
        THEN Outcome(request, HTTPException(HTTP_422, DETAIL_VALIDATION),
                     NotCalled, NoExt)
        ELSE search_by_text(request, enc, rpc)

\* GET /search: search_by_text_get, main.py:357-378.  The query parameters are
\* validated, a TextSearchRequest is built from them (a ValidationError there
\* is unhandled) and search_by_text answers.
search_by_text_get(query, search_type, limit, threshold, file_type, decade, enc, rpc) ==
    LET params == GetQueryParams(query, search_type, limit, threshold, file_type, decade)
        built == TextSearchRequest("GET /search", params.query, <<params.search_type>>,
                                   <<params.limit>>, <<params.threshold>>,
                                   params.file_type, params.decade)
        request == [built EXCEPT !.given_limit = limit, !.given_threshold = threshold]
    IN  IF ~ValidGetParams(params)
        THEN Outcome(request, HTTPException(HTTP_422, DETAIL_VALIDATION),
                     NotCalled, NoExt)
        ELSE IF ~ValidTextSearchRequest(request)
        THEN Outcome(request, HTTPException(HTTP_500, DETAIL_UNHANDLED),
                     NotCalled, NoExt)
        ELSE search_by_text(request, enc, rpc)

\* POST /search/image: the parameters are validated (422), then
\* search_by_image answers.
PostSearchImage(content_type, search_type, limit, threshold, file_type, decade, enc, rpc) ==
    LET request == ImageSearchParams(content_type, search_type, limit, threshold,
                                     file_type, decade)
    IN  IF ~ValidImageParams(request)
        THEN Outcome(request, HTTPException(HTTP_422, DETAIL_VALIDATION),
                     NotCalled, NoExt)
        ELSE search_by_image(request, enc, rpc)

SearchByTextPost ==
    /\ pc = "idle"
    /\ \E query \in QueryTexts, search_type \in SearchTypeInputs, limit \in LimitInputs,
          threshold \in ThresholdInputs, file_type \in FileTypeInputs,
          decade \in DecadeInputs :
         \E enc \in EncodeAnswers(PostSearch(query, search_type, limit, threshold,
                                             file_type, decade, "ok", NoRpc)) :
           \E rpc \in RpcAnswers(PostSearch(query, search_type, limit, threshold,
                                            file_type, decade, enc, NoRpc)) :
             Respond(PostSearch(query, search_type, limit, threshold, file_type, decade,
                                enc, rpc))

SearchByTextGet ==
    /\ pc = "idle"
    /\ \E query \in QueryTexts, search_type \in SearchTypeInputs, limit \in LimitInputs,
          threshold \in ThresholdInputs, file_type \in FileTypeInputs,
          decade \in DecadeInputs :
         \E enc \in EncodeAnswers(search_by_text_get(query, search_type, limit, threshold,
                                                     file_type, decade, "ok", NoRpc)) :
           \E rpc \in RpcAnswers(search_by_text_get(query, search_type, limit, threshold,
                                                    file_type, decade, enc, NoRpc)) :
             Respond(search_by_text_get(query, search_type, limit, threshold, file_type,
                                        decade, enc, rpc))

SearchByImage ==
    /\ pc = "idle"
    /\ \E content_type \in ContentTypes, search_type \in SearchTypeInputs,
          limit \in LimitInputs, threshold \in ThresholdInputs,
          file_type \in FileTypeInputs, decade \in DecadeInputs :
         \E enc \in EncodeAnswers(PostSearchImage(content_type, search_type, limit,
                                                  threshold, file_type, decade,
                                                  "ok", NoRpc)) :
           \E rpc \in RpcAnswers(PostSearchImage(content_type, search_type, limit,
                                                 threshold, file_type, decade,
                                                 enc, NoRpc)) :
             Respond(PostSearchImage(content_type, search_type, limit, threshold,
                                     file_type, decade, enc, rpc))

\* GET /health
HealthCheck ==
    /\ pc = "idle"
    /\ Respond(health_check)

\* The response is sent; the per-request values are discarded.
Deliver ==
    /\ pc = "responded"
    /\ pc' = "idle"
    /\ req' = NoReq
    /\ resp' = NoResp
    /\ ext' = NoExt
    /\ UNCHANGED <<embedding_service, supabase_service, _supabase_init_attempted,
                   environ, lifespan_state, lazy_init_errors, unit, tasks>>

Next ==
    \/ Lifespan
    \/ SetEnv
    \/ SearchByTextPost
    \/ SearchByTextGet
    \/ SearchByImage
    \/ HealthCheck
    \/ Deliver

Spec == Init /\ [][Next]_vars

TypeOK ==
    /\ embedding_service \in BOOLEAN
    /\ _supabase_init_attempted \in BOOLEAN
    /\ environ \in EnvStates
    /\ lifespan_state \in {"pending", "started", "skipped"}
    /\ pc \in {"idle", "responded"}
    /\ Len(supabase_service) <= 1
    /\ resp.count \in Nat

----------------------------------------------------------------------------
\* Vocabulary of the properties

Responded == pc = "responded"
IsText == req.endpoint \in {"POST /search", "GET /search"}
IsImage == req.endpoint = "POST /search/image"
IsSearch == IsText \/ IsImage
IsHealth == req.endpoint = "GET /health"

ClientError == resp.status >= 400 /\ resp.status <= 499
ServicesAvailable == embedding_service /\ supabase_service # NoService

\* The request satisfies the declared field constraints other than search_type.
FieldsInRange ==
    /\ req.limit >= 1 /\ req.limit <= 100
    /\ req.threshold >= 0 /\ req.threshold <= 100
    /\ IsText => Len(req.query) >= 1

\* str.strip() leaves nothing.
IsBlank(text) == \A i \in DOMAIN text : text[i] = " "

\* The search call of this request raised: the RPC failed, its answer was not
\* a list of rows, or a row could not be converted.
SearchFailed ==
    \/ ext.rpc_kind \in {"raise", "malformed"}
    \/ ext.rpc_kind = "rows" /\ \E i \in DOMAIN ext.data : ext.data[i].similarity.kind = "null"

\* The search call of this request returned normally.
SearchSucceeded == ext.rpc_kind \in {"none", "rows"} /\ ~SearchFailed

----------------------------------------------------------------------------
\* C1: on POST/GET /search and POST /search/image, with the embedding service
\* and the backend handle available and the other fields within their
\* constraints, a search_type among visual/text/combined is not rejected and
\* the request goes on to the encode call (for an image, once its content type
\* is an image's), and any other search_type is answered 400 with the
\* search-type message and no encode call.
C1_SearchTypeAcceptedOrRejected ==
    (Responded /\ IsSearch /\ ServicesAvailable /\ FieldsInRange) =>
        IF req.search_type \in {"visual", "text", "combined"}
        THEN /\ resp.detail # DETAIL_SEARCH_TYPE
             /\ IsText => Count(ext.calls, "encode_text") = 1
             /\ IsImage => (Count(ext.calls, "encode_image") = 1
                              <=> (req.content_type # <<>> /\ req.content_type[1] = "image"))
        ELSE /\ resp.status = 400
             /\ resp.detail = DETAIL_SEARCH_TYPE
             /\ Count(ext.calls, "encode_text") = 0
             /\ Count(ext.calls, "encode_image") = 0

C1_Witness ==
    /\ Responded /\ IsImage /\ ServicesAvailable
    /\ req.search_type = "bogus"
    /\ req.content_type = <<"image", "png">>
    /\ resp.status = 400

\* C2: a search request whose search_type is not visual/text/combined is
\* answered with a client error in every service state and no external step
\* runs for it (no client construction, no encode, no RPC).  Stated for the
\* states where the model is loaded and the other fields are in range.
C2_InvalidSearchTypeBeforeExternal ==
    (Responded /\ IsSearch /\ embedding_service /\ FieldsInRange
        /\ req.search_type \notin {"visual", "text", "combined"}) =>
        /\ ClientError
        /\ ext.calls = <<>>

\* C3: a request whose limit is outside [1,100] or whose threshold is outside
\* [0,1] is rejected on all three entry points with no encode and no RPC call,
\* and every RPC that is made carries the caller's limit and threshold (the
\* defaults 20 and 0.0 when omitted), unchanged and within range.
C3_OutOfRangeRejectedNeverClamped ==
    (Responded /\ IsSearch) =>
        /\ (\/ Default(req.given_limit, 20) < 1
            \/ Default(req.given_limit, 20) > 100
            \/ Default(req.given_threshold, 0) < 0
            \/ Default(req.given_threshold, 0) > 100)
           => /\ ClientError
              /\ Count(ext.calls, "encode_text") = 0
              /\ Count(ext.calls, "encode_image") = 0
              /\ Count(ext.calls, "rpc") = 0
        /\ \A i \in DOMAIN ext.rpc_args :
              /\ ext.rpc_args[i].match_count = Default(req.given_limit, 20)
              /\ ext.rpc_args[i].match_threshold = Default(req.given_threshold, 0)
              /\ ext.rpc_args[i].match_count \in 1..100
              /\ ext.rpc_args[i].match_threshold \in 0..100

C3_Witness ==
    /\ Responded /\ req.endpoint = "GET /search"
    /\ req.given_limit = <<101>>
    /\ ServicesAvailable
    /\ resp.status = 422
    /\ ext.calls = <<>>

\* C4: a text search whose query is empty or only whitespace is rejected with
\* a client error (whenever the services are available) and encode_text is
\* never called with such a text.
C4_BlankQueryRejected ==
    (Responded /\ IsText /\ IsBlank(req.query)) =>
        /\ ServicesAvailable => ClientError
        /\ \A i \in DOMAIN ext.encoded : ~IsBlank(ext.encoded[i])

\* C5: an image search whose content type is missing or does not begin with
\* "image/" always yields a client error, and encode_image is never called for
\* it.  Stated for the states where the model is loaded and limit and
\* threshold are in range.
C5_NonImageUploadRejected ==
    (Responded /\ IsImage /\ embedding_service /\ FieldsInRange
        /\ ~(req.content_type # <<>> /\ req.content_type[1] = "image")) =>
        /\ ClientError
        /\ Count(ext.calls, "encode_image") = 0

\* C6: when the backend search call of a text or image search fails, the
\* response is 500, never a success with an empty result set, and the search
\* was called exactly once; no request calls it more than once.
C6_BackendFailureIsServerError ==
    (Responded /\ IsSearch) =>
        /\ Count(ext.calls, "rpc") <= 1
        /\ SearchFailed =>
              /\ resp.status = 500
              /\ resp.detail = DETAIL_SEARCH_FAILED
              /\ Count(ext.calls, "rpc") = 1

C6_Witness ==
    /\ Responded /\ IsImage
    /\ ext.rpc_kind = "malformed"
    /\ resp.status = 500

\* C7: when the backend search succeeds with no rows the response is a
\* success with results = [] and count = 0, and in every successful search
\* response count = len(results) = the number of rows the backend returned.
C7_EmptyResultAndCount ==
    (Responded /\ IsSearch) =>
        /\ (SearchSucceeded /\ ext.data = <<>>) =>
              /\ resp.status = 200
              /\ resp.results = <<>>
              /\ resp.count = 0
        /\ resp.status = 200 =>
              /\ resp.count = Len(resp.results)
              /\ Len(resp.results) = Len(ext.data)

C7_Witness ==
    /\ Responded /\ IsText
    /\ ext.rpc_kind = "rows" /\ ext.data = <<>>
    /\ resp.status = 200 /\ resp.count = 0

C9_UrlFailureIsPerField ==
    (Responded /\ IsSearch /\ SearchSucceeded /\ ext.data # <<>>) =>
        /\ resp.status = 200
        /\ Len(resp.results) = Len(ext.data)
        /\ \A i \in DOMAIN ext.data :
              LET row == ext.data[i]
                  item == resp.results[i]
              IN  /\ item.storage_url = IF row.fault = "storage" THEN <<>>
                                        ELSE <<"media-files", row.storage_path>>
                  /\ item.thumbnail_url = IF row.fault = "thumbnail" THEN <<>>
                                          ELSE <<"media-files", row.thumbnail_path>>
                  /\ item.storage_path = row.storage_path
                  /\ item.thumbnail_path = row.thumbnail_path
                  /\ item.similarity_score =
                        IF row.similarity.kind = "absent" THEN 0 ELSE row.similarity.val

C9_Witness ==
    /\ Responded /\ IsImage /\ resp.status = 200
    /\ Len(resp.results) = 2
    /\ ext.data[1].fault = "storage"
    /\ ext.data[2].fault = "none"
    /\ resp.results[1].storage_url = <<>>
    /\ resp.results[1].thumbnail_url # <<>>
    /\ resp.results[2].storage_url # <<>>

\* C10: after startup every health check answers with the backend's state:
\* supabase_connected is false while the handle is absent and cannot be
\* constructed, and true on the first health check for which a construction
\* with the current configuration succeeds.
C10_HealthReportsBackend ==
    (Responded /\ IsHealth /\ lifespan_state = "started") =>
        /\ resp.status = 200
        /\ resp.supabase_connected <=> supabase_service # NoService

----------------------------------------------------------------------------
\* C11: a search request (embedding service loaded, fields valid) or a health
\* check that starts while the backend handle is absent makes one construction
\* attempt; when the attempt fails the handle stays absent and a search is
\* answered 503; when it succeeds the request goes on with the new handle: a
\* search is not answered 503 and a health check reports the connection.
C11_FreshAttemptWhileAbsent ==
    [][(/\ pc = "idle" /\ pc' = "responded"
        /\ supabase_service = NoService
        /\ lifespan_state = "started"
        /\ IsHealth' \/ (IsSearch' /\ FieldsInRange'))
       => /\ Count(ext'.calls, "create_client") = 1
          /\ supabase_service' = NoService => (IsSearch' => resp'.status = HTTP_503)
          /\ supabase_service' # NoService =>
                /\ IsSearch' => resp'.status # HTTP_503
                /\ IsHealth' => resp'.supabase_connected]_vars

\* C12: a text or image search (fields valid) answered while the embedding
\* service is absent, or while the backend handle is absent and could not be
\* constructed, gets 503 with the message naming what is missing (the embedding
\* service first), and no encode call and no backend search is made for it.
C12_UnavailableIs503 ==
    (Responded /\ IsSearch /\ FieldsInRange
        /\ (~embedding_service \/ supabase_service = NoService)) =>
        /\ resp.status = HTTP_503
        /\ resp.detail = IF ~embedding_service THEN DETAIL_EMBEDDING ELSE DETAIL_DATABASE
        /\ Count(ext.calls, "encode_text") = 0
        /\ Count(ext.calls, "encode_image") = 0
        /\ Count(ext.calls, "rpc") = 0
        /\ ext.rpc_args = <<>>

C12_Witness ==
    /\ Responded /\ IsImage /\ FieldsInRange
    /\ embedding_service /\ supabase_service = NoService
    /\ ext.calls = <<"create_client">>
    /\ resp.status = HTTP_503 /\ resp.detail = DETAIL_DATABASE

\* C13: when the embedding provider raises while encoding the query text or
\* the uploaded image, the request is answered 500 with the encode-failure
\* message of its endpoint (which carries the provider's message), the encode
\* call was made exactly once, and no backend search was made.
C13_EncodeFailureIsServerError ==
    (Responded /\ IsSearch /\ ext.enc_kind = "raise") =>
        /\ resp.status = HTTP_500
        /\ resp.detail = IF IsText THEN DETAIL_ENCODE_TEXT ELSE DETAIL_ENCODE_IMAGE
        /\ Count(ext.calls, "encode_text") = (IF IsText THEN 1 ELSE 0)
        /\ Count(ext.calls, "encode_image") = (IF IsImage THEN 1 ELSE 0)
        /\ IsText => ext.encoded = <<req.query>>
        /\ Count(ext.calls, "rpc") = 0
        /\ ext.rpc_args = <<>>

C13_Witness ==
    /\ Responded /\ IsText /\ ext.enc_kind = "raise"
    /\ ext.calls = <<"encode_text">>
    /\ resp.status = HTTP_500 /\ resp.detail = DETAIL_ENCODE_TEXT

----------------------------------------------------------------------------
\* Text of the archive's items: a text is a sequence of characters; an
\* optional text is <<>> (None or missing) or <<text>>.

LowerChar(c) == IF c = "A" THEN "a" ELSE IF c = "B" THEN "b" ELSE c

\* str.lower()
Lower(text) == [i \in DOMAIN text |-> LowerChar(text[i])]

\* sub in text
Contains(text, sub) ==
    \E i \in 0..(Len(text) - Len(sub)) : SubSeq(text, i + 1, i + Len(sub)) = sub

\* text.startswith(sub), text.endswith(sub)
StartsWith(text, sub) ==
    Len(sub) <= Len(text) /\ SubSeq(text, 1, Len(sub)) = sub
EndsWith(text, sub) ==
    Len(sub) <= Len(text) /\ SubSeq(text, Len(text) - Len(sub) + 1, Len(text)) = sub

\* value or fallback, for an optional text: None and "" are both falsy.
OrElse(value, fallback) ==
    IF value = <<>> \/ value[1] = <<>> THEN fallback ELSE value[1]

----------------------------------------------------------------------------
\* SupabaseSearchService._calculate_text_relevance (supabase_service.py:199-232)
\* Scores are counted in hundredths.

SCORE_DESCRIPTION_EXACT == 50
SCORE_DESCRIPTION_EDGE == 40
SCORE_DESCRIPTION_INSIDE == 30
SCORE_FILENAME == 25
SCORE_TAG == 25
SCORE_CAP == 100

Min(a, b) == IF a <= b THEN a ELSE b

RECURSIVE TagScore(_, _, _)
\* for tag in tags: if query_lower in tag.lower(): score += 0.25; break
TagScore(tags, query_lower, i) ==
    IF i > Len(tags) THEN 0
    ELSE IF Contains(Lower(tags[i]), query_lower) THEN SCORE_TAG
         ELSE TagScore(tags, query_lower, i + 1)

RECURSIVE EveryTagScore(_, _, _)
EveryTagScore(tags, query_lower, i) ==
    IF i > Len(tags) THEN 0
    ELSE (IF Contains(Lower(tags[i]), query_lower) THEN SCORE_TAG ELSE 0)
            + EveryTagScore(tags, query_lower, i + 1)

_calculate_text_relevance_NoBreak(item, query) ==
    LET query_lower == Lower(query)
        description == Lower(OrElse(item.description, <<>>))
        after_description ==
            IF Contains(description, query_lower)
            THEN IF description = query_lower THEN SCORE_DESCRIPTION_EXACT
                 ELSE IF StartsWith(description, query_lower)
                         \/ EndsWith(description, query_lower)
                 THEN SCORE_DESCRIPTION_EDGE
                 ELSE SCORE_DESCRIPTION_INSIDE
            ELSE 0
        filename == Lower(OrElse(item.original_filename, OrElse(item.filename, <<>>)))
        after_filename ==
            after_description
                + (IF Contains(filename, query_lower) THEN SCORE_FILENAME ELSE 0)
        tags == IF item.tags.kind = "none" \/ item.tags.val = <<>>
                THEN [kind |-> "list", val |-> <<>>] ELSE item.tags
        after_tags ==
            after_filename
                + (IF tags.kind = "list" THEN EveryTagScore(tags.val, query_lower, 1) ELSE 0)
    IN  Min(after_tags, SCORE_CAP)
_calculate_text_relevance(item, query) ==
    LET query_lower == Lower(query)
        description == Lower(OrElse(item.description, <<>>))
        after_description ==
            IF Contains(description, query_lower)
            THEN IF description = query_lower THEN SCORE_DESCRIPTION_EXACT
                 ELSE IF StartsWith(description, query_lower)
                         \/ EndsWith(description, query_lower)
                 THEN SCORE_DESCRIPTION_EDGE
                 ELSE SCORE_DESCRIPTION_INSIDE
            ELSE 0
        filename == Lower(OrElse(item.original_filename, OrElse(item.filename, <<>>)))
        after_filename ==
            after_description
                + (IF Contains(filename, query_lower) THEN SCORE_FILENAME ELSE 0)
        tags == IF item.tags.kind = "none" \/ item.tags.val = <<>>
                THEN [kind |-> "list", val |-> <<>>] ELSE item.tags
        after_tags ==
            after_filename
                + (IF tags.kind = "list" THEN TagScore(tags.val, query_lower, 1) ELSE 0)
    IN  Min(after_tags, SCORE_CAP)

\* The items and queries the function is applied to.
DescriptionTexts ==
    {<<>>, <<"a">>, <<"A">>, <<"b">>, <<"a", "b">>, <<"b", "a">>, <<"b", "a", "b">>}
FilenameTexts == {<<>>, <<"a">>, <<"b">>}
TagLists == {<<>>, <<<<"b">>>>, <<<<"A">>>>, <<<<"a">>, <<"b", "a">>>>,
             <<<<"b">>, <<"a", "b">>>>}
TagValues ==
    {[kind |-> "none", val |-> <<>>], [kind |-> "other", val |-> <<>>]}
        \cup {[kind |-> "list", val |-> tags] : tags \in TagLists}
RelevanceItems ==
    [description : Opt(DescriptionTexts), original_filename : Opt(FilenameTexts),
     filename : Opt(FilenameTexts \ {<<>>}), tags : TagValues]
RelevanceQueries == {<<"a">>, <<"A">>, <<"a", "b">>}

\* text_search scores one row (supabase_service.py:165).
RelevanceInit ==
    /\ NotStarted
    /\ tasks = NoTasks
    /\ unit \in [fn : {"_calculate_text_relevance"}, item : RelevanceItems,
                 query : RelevanceQueries, returned : {<<>>}]

CalculateTextRelevance ==
    /\ unit.fn = "_calculate_text_relevance"
    /\ unit.returned = <<>>
    /\ unit' = [unit EXCEPT !.returned = <<_calculate_text_relevance(unit.item, unit.query)>>]
    /\ UNCHANGED <<embedding_service, supabase_service, _supabase_init_attempted,
                   environ, lifespan_state, pc, req, resp, ext, lazy_init_errors, tasks>>

RelevanceNext == CalculateTextRelevance

SpecRelevance == RelevanceInit /\ [][RelevanceNext]_vars

\* The claimed score, from the texts as the claim reads them.
SameText(a, b) == Lower(a) = Lower(b)
Within(text, query) == Contains(Lower(text), Lower(query))
AtEdge(text, query) ==
    StartsWith(Lower(text), Lower(query)) \/ EndsWith(Lower(text), Lower(query))
ClaimedD(item, query) ==
    LET description == IF item.description = <<>> THEN <<>> ELSE item.description[1]
    IN  IF SameText(description, query) THEN 50
        ELSE IF AtEdge(description, query) THEN 40
        ELSE IF Within(description, query) THEN 30
        ELSE 0
ClaimedF(item, query) ==
    LET present == item.original_filename # <<>> /\ item.original_filename[1] # <<>>
        name == IF present THEN item.original_filename[1]
                ELSE IF item.filename = <<>> THEN <<>> ELSE item.filename[1]
    IN  IF Within(name, query) THEN 25 ELSE 0
ClaimedT(item, query) ==
    IF item.tags.kind = "list"
          /\ \E i \in DOMAIN item.tags.val : Within(item.tags.val[i], query)
    THEN 25 ELSE 0

\* C14: the score _calculate_text_relevance returns is min(1.0, D + F + T):
\* D is 0.5 / 0.4 / 0.3 / 0 for a description equal to, starting or ending
\* with, containing, or not containing the query (case-insensitively); F is
\* 0.25 when the original filename, or the filename when there is no original
\* filename, contains the query; T is 0.25 when some tag contains it, counted
\* once.  A description equal to the query with no other match scores 0.5, a
\* tag-only match scores 0.25.
C14_RelevanceScore ==
    (unit.fn = "_calculate_text_relevance" /\ unit.returned # <<>>) =>
        LET d == ClaimedD(unit.item, unit.query)
            f == ClaimedF(unit.item, unit.query)
            t == ClaimedT(unit.item, unit.query)
            score == unit.returned[1]
        IN  /\ score = Min(100, d + f + t)
            /\ (d = 50 /\ f = 0 /\ t = 0) => score = 50
            /\ (d = 0 /\ f = 0 /\ t = 25) => score = 25

C14_Witness ==
    /\ unit.fn = "_calculate_text_relevance"
    /\ unit.query = <<"A">>
    /\ unit.item.description = <<<<"b", "a", "b">>>>
    /\ unit.item.original_filename = <<<<>>>>
    /\ unit.item.filename = <<<<"a">>>>
    /\ unit.item.tags = [kind |-> "list", val |-> <<<<"a">>, <<"b", "a">>>>]
    /\ unit.returned = <<80>>

----------------------------------------------------------------------------
\* Two outcomes are the same but for the name of the endpoint.
SameOutcome(a, b) ==
    [a EXCEPT !.request.endpoint = "/search"] = [b EXCEPT !.request.endpoint = "/search"]

\* C15: in every state of the service, for every query, searchType, limit,
\* threshold, fileType and decade (given or omitted) and every answer of the
\* embedding provider and the backend, GET /search and POST /search end the
\* same way: the same request after defaults, the same external calls with the
\* same arguments in the same order, the same effect on the backend handle,
\* and the same response or error.
C15_GetEqualsPost ==
    pc = "idle" =>
        \A query \in QueryTexts, search_type \in SearchTypeInputs, limit \in LimitInputs,
           threshold \in ThresholdInputs, file_type \in FileTypeInputs,
           decade \in DecadeInputs, enc \in EncodeOutcomes :
            LET get == search_by_text_get(query, search_type, limit, threshold,
                                          file_type, decade, enc, NoRpc)
                post == PostSearch(query, search_type, limit, threshold,
                                   file_type, decade, enc, NoRpc)
            IN  /\ SameOutcome(get, post)
                /\ (get.ext.rpc_kind # "" \/ post.ext.rpc_kind # "") =>
                      \A rpc \in RpcOutcomes :
                          SameOutcome(search_by_text_get(query, search_type, limit,
                                                         threshold, file_type, decade,
                                                         enc, rpc),
                                      PostSearch(query, search_type, limit, threshold,
                                                 file_type, decade, enc, rpc))

\* Both endpoints, asked for "a" with everything else omitted while the
\* services are available, search with the defaults and answer 200.
C15_Witness ==
    /\ pc = "idle" /\ lifespan_state = "started" /\ supabase_service # NoService
    /\ \E rpc \in RpcOutcomes :
          LET get == search_by_text_get(<<"a">>, <<>>, <<>>, <<>>, <<>>, <<>>, "ok", rpc)
              post == PostSearch(<<"a">>, <<>>, <<>>, <<>>, <<>>, <<>>, "ok", rpc)
          IN  /\ get.response.status = HTTP_200 /\ get.response.count = 2
              /\ get.ext.rpc_args[1].match_count = 20
              /\ get.ext.rpc_args[1].search_type = "combined"
              /\ get.request.endpoint = "GET /search"
              /\ post.request.endpoint = "POST /search"
              /\ post.response = get.response /\ post.ext = get.ext

----------------------------------------------------------------------------
\* TranslationService (translation_service.py)

\* What the provider call does: the exception raised inside the try block, or
\* "none" with the translatedText of the first translation.
ProviderOutcomes ==
    {[raises |-> "none", translated |-> <<"b">>],
     [raises |-> "none", translated |-> <<>>]}
        \cup [raises : {"HTTPError", "URLError", "TimeoutError", "JSONDecodeError",
                        "KeyError", "IndexError", "TypeError", "UnicodeDecodeError"},
              translated : {<<>>}]

\* The exception classes each except clause names, in the order of the
\* clauses (translation_service.py:86-97); the last one is Exception.
EXCEPT_CLAUSES ==
    <<{"HTTPError"}, {"URLError", "HTTPError"},
      {"KeyError", "IndexError", "JSONDecodeError"},
      {"HTTPError", "URLError", "TimeoutError", "JSONDecodeError", "KeyError",
       "IndexError", "TypeError", "UnicodeDecodeError"}>>

\* Some clause catches the exception.
Caught_SpecificOnly(raises) ==
    \E i \in 1..(Len(EXCEPT_CLAUSES) - 1) : raises \in EXCEPT_CLAUSES[i]
Caught(raises) == \E i \in DOMAIN EXCEPT_CLAUSES : raises \in EXCEPT_CLAUSES[i]

\* self.api_key = api_key or os.getenv("GOOGLE_TRANSLATE_API_KEY")
TranslationApiKey(api_key, env_key) ==
    IF api_key # <<>> /\ api_key[1] # "" THEN api_key ELSE env_key

\* not self.api_key
NoApiKey(api_key) == api_key = <<>> \/ api_key[1] = ""

\* not text or not text.strip(): text is <<>> (None) or <<characters>>
BlankText(text) == text = <<>> \/ IsBlank(text[1])

\* translate(text): what it returns (<<value>>), whether an exception left it,
\* and the provider calls it made.
translate(api_key, text, outcome) ==
    IF NoApiKey(api_key)
    THEN [returned |-> <<text>>, raised |-> FALSE, calls |-> <<>>]
    ELSE IF BlankText(text)
    THEN [returned |-> <<text>>, raised |-> FALSE, calls |-> <<>>]
    ELSE IF outcome.raises = "none"
    THEN [returned |-> <<<<outcome.translated>>>>, raised |-> FALSE,
          calls |-> <<"urlopen">>]
    ELSE IF Caught(outcome.raises)
    THEN [returned |-> <<text>>, raised |-> FALSE, calls |-> <<"urlopen">>]
    ELSE [returned |-> <<>>, raised |-> TRUE, calls |-> <<"urlopen">>]

TranslateTexts == {<<>>, <<" ">>, <<" ", " ">>, <<"a">>, <<" ", "a">>}
TranslateKeys == {<<>>, <<"">>, <<"api-key">>}

TranslationInit ==
    /\ NotStarted
    /\ tasks = NoTasks
    /\ unit \in [fn : {"translate"}, api_key : TranslateKeys, env_key : TranslateKeys,
                 text : Opt(TranslateTexts), outcome : ProviderOutcomes,
                 done : {FALSE}, returned : {<<>>}, raised : {FALSE}, calls : {<<>>}]

Translate ==
    /\ unit.fn = "translate"
    /\ ~unit.done
    /\ LET self_api_key == TranslationApiKey(unit.api_key, unit.env_key)
           result == translate(self_api_key, unit.text, unit.outcome)
       IN  unit' = [unit EXCEPT !.done = TRUE, !.returned = result.returned,
                                !.raised = result.raised, !.calls = result.calls]
    /\ UNCHANGED <<embedding_service, supabase_service, _supabase_init_attempted,
                   environ, lifespan_state, pc, req, resp, ext, lazy_init_errors, tasks>>

TranslationNext == Translate

SpecTranslation == TranslationInit /\ [][TranslationNext]_vars

\* The service was given a key, by argument or by environment.
KeyConfigured ==
    \/ unit.api_key # <<>> /\ unit.api_key[1] # ""
    \/ unit.env_key # <<>> /\ unit.env_key[1] # ""

\* C16: translate never raises to its caller; when the provider call fails
\* (HTTP error, network error or timeout, malformed JSON, missing or empty
\* translations, any other exception) it returns the input text; when no API
\* key is configured or the text is empty or whitespace-only it returns the
\* input text and makes no provider call.
C16_TranslateNeverFails ==
    (unit.fn = "translate" /\ unit.done) =>
        /\ ~unit.raised
        /\ unit.outcome.raises # "none" => unit.returned = <<unit.text>>
        /\ (~KeyConfigured \/ unit.text = <<>> \/ IsBlank(unit.text[1])) =>
              /\ unit.returned = <<unit.text>>
              /\ unit.calls = <<>>

C16_Witness ==
    /\ unit.fn = "translate" /\ unit.done
    /\ KeyConfigured
    /\ unit.text = <<<<" ", "a">>>>
    /\ unit.outcome.raises = "TypeError"
    /\ unit.calls = <<"urlopen">>
    /\ unit.returned = <<unit.text>>

----------------------------------------------------------------------------
\* C17: every result list a text or image search returns is in order of
\* non-increasing similarity_score and has at most `limit` items, whatever
\* rows the backend answered and in whatever order.
C17_SortedAndTruncated ==
    (Responded /\ IsSearch /\ resp.status = HTTP_200) =>
        /\ \A i \in 1..(Len(resp.results) - 1) :
              resp.results[i].similarity_score >= resp.results[i + 1].similarity_score
        /\ Len(resp.results) <= req.limit

----------------------------------------------------------------------------
\* _get_supabase_env applied to every environment (main.py:44-70)

\* The value a variable has when it is set to something: one per variable.
EnvValueOf ==
    [v \in EnvVars |->
        CASE v = "SUPABASE_KEY" -> "value-of-SUPABASE_KEY"
          [] v = "SUPABASE_SERVICE_ROLE_KEY" -> "value-of-SUPABASE_SERVICE_ROLE_KEY"
          [] v = "SUPABASE_API_KEY" -> "value-of-SUPABASE_API_KEY"
          [] v = "SUPABASE_ANON_KEY" -> "value-of-SUPABASE_ANON_KEY"
          [] OTHER -> "value-of-SUPABASE_URL"]

\* Every variable is unset, empty, or set.
AllEnvStates ==
    {env \in [EnvVars -> {UNSET, ""} \cup {EnvValueOf[v] : v \in EnvVars}] :
        \A v \in EnvVars : env[v] \in {UNSET, "", EnvValueOf[v]}}

EnvInit ==
    /\ embedding_service = FALSE
    /\ supabase_service = NoService
    /\ _supabase_init_attempted = FALSE
    /\ environ \in AllEnvStates
    /\ lifespan_state = "pending"
    /\ pc = "idle"
    /\ req = NoReq
    /\ resp = NoResp
    /\ ext = NoExt
    /\ lazy_init_errors = 0
    /\ tasks = NoTasks
    /\ unit = [fn |-> "_get_supabase_env", returned |-> <<>>]

GetSupabaseEnv ==
    /\ unit.fn = "_get_supabase_env"
    /\ unit.returned = <<>>
    /\ unit' = [unit EXCEPT !.returned = <<_get_supabase_env(environ)>>]
    /\ UNCHANGED <<embedding_service, supabase_service, _supabase_init_attempted,
                   environ, lifespan_state, pc, req, resp, ext, lazy_init_errors, tasks>>

EnvNext == GetSupabaseEnv

SpecEnv == EnvInit /\ [][EnvNext]_vars

\* The key variables, in the documented order, that are set and non-empty.
SetKeyVars ==
    {i \in 1..4 :
        LET name == <<"SUPABASE_KEY", "SUPABASE_SERVICE_ROLE_KEY", "SUPABASE_API_KEY",
                      "SUPABASE_ANON_KEY">>[i]
        IN  environ[name] # UNSET /\ environ[name] # ""}

\* The environment with every empty variable unset.
EmptyAsUnset == [v \in EnvVars |-> IF environ[v] = "" THEN UNSET ELSE environ[v]]

\* C18: when some of SUPABASE_KEY, SUPABASE_SERVICE_ROLE_KEY, SUPABASE_API_KEY,
\* SUPABASE_ANON_KEY is set and non-empty, the key _get_supabase_env returns
\* is the value of the first such variable in that order, whatever the later
\* ones hold, and key_source is that variable's name; the result is the same
\* as with every empty-string variable unset.
C18_FirstSetKeyWins ==
    (unit.fn = "_get_supabase_env" /\ unit.returned # <<>>) =>
        LET result == unit.returned[1]
            order == <<"SUPABASE_KEY", "SUPABASE_SERVICE_ROLE_KEY", "SUPABASE_API_KEY",
                       "SUPABASE_ANON_KEY">>
        IN  /\ SetKeyVars # {} =>
                  LET first == CHOOSE i \in SetKeyVars : \A j \in SetKeyVars : i <= j
                  IN  /\ result.supabase_key = environ[order[first]]
                      /\ result.key_source = order[first]
                      /\ ~result.key_is_default
            /\ result = _get_supabase_env(EmptyAsUnset)

C18_Witness ==
    /\ unit.fn = "_get_supabase_env" /\ unit.returned # <<>>
    /\ environ["SUPABASE_KEY"] = ""
    /\ environ["SUPABASE_SERVICE_ROLE_KEY"] = UNSET
    /\ environ["SUPABASE_API_KEY"] = "value-of-SUPABASE_API_KEY"
    /\ environ["SUPABASE_ANON_KEY"] = "value-of-SUPABASE_ANON_KEY"
    /\ unit.returned[1].supabase_key = "value-of-SUPABASE_API_KEY"
    /\ unit.returned[1].key_source = "SUPABASE_API_KEY"

----------------------------------------------------------------------------
\* C19: while backend-client construction keeps failing, over any sequence of
\* requests, the lazy-initialisation failure is logged at most once in total.
C19_FailureLoggedOnce ==
    lazy_init_errors <= 1

----------------------------------------------------------------------------
\* Concurrent requests: get_supabase_service (main.py:73-104) one statement at
\* a time, with nothing excluding another request between its check of the
\* global and its construction.

Tasks == 1..MaxTasks

\* pc: "idle", "lazy_check" (main.py:80), "lazy_construct" (main.py:83-104),
\* "ready" (main.py:306, back in the handler) or "done"; db_service: what
\* get_supabase_service returned; constructed: it called the constructor;
\* used: the handle the search ran with.
IdleTask ==
    [pc |-> "idle", kind |-> "none", db_service |-> NoService, constructed |-> FALSE,
     status |-> 0, used |-> NoService]

\* supabase_service = SupabaseSearchService(...) inside the try (main.py:95-98):
\* the global is assigned only when the constructor returned.
StoreHandle_AlsoOnFailure(current, made) == made
StoreHandle(current, made) == IF made # NoService THEN made ELSE current

ConcInit ==
    /\ NotStarted
    /\ unit = NoUnit
    /\ tasks = [t \in Tasks |-> IdleTask]

\* A search request arrives; the embedding service was loaded by lifespan.
ConcSearch(t) ==
    /\ lifespan_state = "started" /\ embedding_service
    /\ tasks[t].pc = "idle"
    /\ tasks' = [tasks EXCEPT ![t] = [IdleTask EXCEPT !.pc = "lazy_check",
                                                      !.kind = "search"]]
    /\ UNCHANGED <<embedding_service, supabase_service, _supabase_init_attempted,
                   environ, lifespan_state, pc, req, resp, ext, lazy_init_errors, unit>>

\* A health check arrives (main.py:263-280).
ConcHealth(t) ==
    /\ lifespan_state = "started"
    /\ tasks[t].pc = "idle"
    /\ tasks' = [tasks EXCEPT ![t] =
                    IF ENV_TUPLE_LEN # HEALTH_UNPACK_TARGETS
                    THEN [IdleTask EXCEPT !.pc = "done", !.kind = "health",
                                          !.status = HTTP_500]
                    ELSE [IdleTask EXCEPT !.pc = "lazy_check", !.kind = "health"]]
    /\ UNCHANGED <<embedding_service, supabase_service, _supabase_init_attempted,
                   environ, lifespan_state, pc, req, resp, ext, lazy_init_errors, unit>>

\* if supabase_service is not None: return supabase_service
LazyCheck(t) ==
    /\ tasks[t].pc = "lazy_check"
    /\ tasks' = [tasks EXCEPT ![t] =
                    IF supabase_service # NoService
                    THEN [@ EXCEPT !.pc = "ready", !.db_service = supabase_service]
                    ELSE [@ EXCEPT !.pc = "lazy_construct"]]
    /\ UNCHANGED <<embedding_service, supabase_service, _supabase_init_attempted,
                   environ, lifespan_state, pc, req, resp, ext, lazy_init_errors, unit>>

\* The environment is read and the client constructed; on success the global
\* is assigned and returned, on failure None is returned.
LazyConstruct(t) ==
    /\ tasks[t].pc = "lazy_construct"
    /\ LET e == _get_supabase_env(environ)
           made == SupabaseSearchService(e.supabase_url, e.supabase_key)
       IN  /\ supabase_service' = StoreHandle(supabase_service, made)
           /\ tasks' = [tasks EXCEPT ![t] = [@ EXCEPT !.pc = "ready",
                                                      !.db_service = made,
                                                      !.constructed = TRUE]]
    /\ UNCHANGED <<embedding_service, _supabase_init_attempted,
                   environ, lifespan_state, pc, req, resp, ext, lazy_init_errors, unit>>

\* Back in the handler: 503 without a handle, otherwise the search runs with
\* the handle get_supabase_service returned.
ConcRespond(t) ==
    /\ tasks[t].pc = "ready"
    /\ tasks' = [tasks EXCEPT ![t] =
                    IF ~Ready(tasks[t].db_service)
                    THEN [@ EXCEPT !.pc = "done",
                                   !.status = IF tasks[t].kind = "search" THEN HTTP_503
                                              ELSE HTTP_200]
                    ELSE [@ EXCEPT !.pc = "done", !.status = HTTP_200,
                                   !.used = IF tasks[t].kind = "search"
                                            THEN tasks[t].db_service ELSE NoService]]
    /\ UNCHANGED <<embedding_service, supabase_service, _supabase_init_attempted,
                   environ, lifespan_state, pc, req, resp, ext, lazy_init_errors, unit>>

ConcDeliver(t) ==
    /\ tasks[t].pc = "done"
    /\ tasks' = [tasks EXCEPT ![t] = IdleTask]
    /\ UNCHANGED <<embedding_service, supabase_service, _supabase_init_attempted,
                   environ, lifespan_state, pc, req, resp, ext, lazy_init_errors, unit>>

\* The operator changes the service's variables at any moment.
ConcSetEnv ==
    /\ environ' \in EnvStates \ {environ}
    /\ UNCHANGED <<embedding_service, supabase_service, _supabase_init_attempted,
                   lifespan_state, pc, req, resp, ext, lazy_init_errors, unit, tasks>>

ConcNext ==
    \/ Lifespan
    \/ ConcSetEnv
    \/ \E t \in Tasks : ConcSearch(t)
    \/ \E t \in Tasks : ConcHealth(t)
    \/ \E t \in Tasks : LazyCheck(t)
    \/ \E t \in Tasks : LazyConstruct(t)
    \/ \E t \in Tasks : ConcRespond(t)
    \/ \E t \in Tasks : ConcDeliver(t)

SpecConc == ConcInit /\ [][ConcNext]_vars

\* A handle is a client whose constructor returned: it carries the URL, key
\* and bucket it was built with, and create_client accepted them.
FullyConstructed(handle) ==
    /\ Len(handle) = 1
    /\ DOMAIN handle[1] = {"url", "key", "bucket_name"}
    /\ CreateClientOk(handle[1].url, handle[1].key)

\* C20: under every interleaving of concurrent requests through the unlocked
\* check-then-construct of get_supabase_service, the shared handle is always
\* absent or a fully constructed client; once present it is never absent
\* again; a request that checks it once it is present takes it and constructs
\* nothing; and every request that passes the readiness check searches with a
\* fully constructed client.  (Requests that saw it absent may each construct:
\* the duplicates are wasted work.)
C20_LazyInitIsRaceSafe ==
    /\ [](/\ supabase_service = NoService \/ FullyConstructed(supabase_service)
          /\ \A t \in DOMAIN tasks :
                /\ tasks[t].used # NoService => FullyConstructed(tasks[t].used)
                /\ (tasks[t].pc = "done" /\ tasks[t].kind = "search"
                        /\ tasks[t].status = HTTP_200) =>
                      FullyConstructed(tasks[t].used))
    /\ [][/\ supabase_service # NoService => supabase_service' # NoService
          /\ \A t \in DOMAIN tasks :
                (/\ supabase_service # NoService
                 /\ tasks[t].pc = "lazy_check" /\ tasks'[t].pc # "lazy_check") =>
                    /\ tasks'[t].pc = "ready"
                    /\ tasks'[t].db_service = supabase_service
                    /\ ~tasks'[t].constructed]_vars

\* Two requests both saw the handle absent, both constructed a client, and
\* both searched with a fully constructed one.
C20_Witness ==
    /\ \A t \in {1, 2} :
          /\ tasks[t].pc = "done" /\ tasks[t].kind = "search"
          /\ tasks[t].constructed
          /\ tasks[t].status = HTTP_200
          /\ FullyConstructed(tasks[t].used)
    /\ supabase_service # NoService

====
